---- MODULE Spec2Model ----
(***************************************************************************)
(* Model of main.py: the POST /v1/generate_image handler, the              *)
(* ChatbotService it drives, and the startup hook that creates the shared  *)
(* gradio client.                                                          *)
(*                                                                         *)
(* generate_image is a coroutine with one suspension point, the            *)
(* `await asyncio.to_thread(self.gradio_client.predict, ...)` inside       *)
(* generate_and_save_selfie.  Everything before it (validation, the two    *)
(* blocking litellm calls, the client check, prompt building) runs in one  *)
(* event-loop step, and everything after it (shape check, file read,       *)
(* base64, file write, response) in another.  The model has one action per *)
(* such step, so two requests interleave exactly where the event loop can  *)
(* interleave them.                                                        *)
(***************************************************************************)
EXTENDS Integers, Sequences, FiniteSets, TLC

\* ----------------------------------------------------------------- bounds
\* Number of request slots handled concurrently.
NumReqs == 2
\* Longest image file (in bytes) the generation backend hands back.
MaxLen == 2
\* Byte values an image file is made of.
ByteVals == {181}

\* --------------------------------------------------------- request inputs
\* bot_prompts.BOT_PROMPTS: the registry of known bot ids (main.py:29).
VALID_BOT_IDS == {"delhi_mentor_male", "pune_friend"}
\* Bot ids a request may carry: the registered ones and one unregistered.
BotIds == VALID_BOT_IDS \cup {"unknown_bot"}
Messages == {"hi"}
\* str(http_request.base_url), as the origin followed by its trailing slashes.
BaseUrls == {<<"http://testserver", "/">>}

\* generate_image: photos_dir and supported_extensions, in scan order.
photos_dir == "photos"
supported_extensions == <<".jpeg", ".jpg", ".png", ".webp">>

None == "None"

\* ------------------------------------------------------------ JSON values
Keys == {"emotion", "location", "action"}
JStr(s) == [t |-> "str", v |-> s]
JArr(s) == [t |-> "array", v |-> s]
JObject(d) == [t |-> "object", d |-> d]
JNonObject(t) == [t |-> t, d |-> <<>>]

\* extract_context: the literal default of the except branch.
DefaultContext ==
    JObject([k \in Keys |->
        CASE k = "emotion" -> JStr("neutral")
          [] k = "location" -> JStr("a room")
          [] k = "action" -> JStr("looking at the camera")])

\* What the scene completion can carry in choices[0].message.content:
\* nothing, text that is no JSON, or text that parses to a JSON value
\* (the three-key object asked for, an object with a key missing, an object
\* with a non-string value, or a value that is no object at all).
FullScene ==
    JObject([k \in Keys |->
        CASE k = "emotion" -> JStr("happy and smiling")
          [] k = "location" -> JStr("at a bustling cafe")
          [] k = "action" -> JStr("sipping a coffee")])
PartialScene == JObject([k \in {"emotion"} |-> JStr("sad")])
NonStringScene ==
    JObject([k \in Keys |->
        IF k = "emotion" THEN JArr("['shy']") ELSE JStr("waving")])
SceneContents ==
    { [t |-> "none", json |-> JNonObject("null")],
      [t |-> "garbage", json |-> JNonObject("null")],
      [t |-> "json", json |-> FullScene],
      [t |-> "json", json |-> PartialScene],
      [t |-> "json", json |-> NonStringScene],
      [t |-> "json", json |-> JNonObject("array")] }
\* A litellm.completion call either raises or returns a content.
SceneOutcomes ==
    { [raises |-> TRUE, content |-> [t |-> "none", json |-> JNonObject("null")]] }
    \cup { [raises |-> FALSE, content |-> c] : c \in SceneContents }
ReactionOutcomes == {"raises", "text", "none"}

\* json.loads: TypeError on None, JSONDecodeError on text that is no JSON,
\* otherwise the value the text denotes, whatever its type.
JsonLoads(content) ==
    IF content.t = "json"
    THEN [raises |-> FALSE, value |-> content.json]
    ELSE [raises |-> TRUE, value |-> JNonObject("null")]

\* ------------------------------------------------------------- responses
NoContext == JNonObject("null")
NoResponse ==
    [status_code |-> 0, shape |-> "none", status |-> "", message |-> <<>>,
     bot_id |-> "", image_url |-> <<>>, image_base64 |-> <<>>,
     emotion_context |-> NoContext]

\* http_exception_handler: every HTTPException becomes
\* {"status": "error", "message": exc.detail} under exc.status_code.
http_exception_handler(status_code, detail) ==
    [NoResponse EXCEPT !.status_code = status_code, !.shape = "json",
                       !.status = "error", !.message = detail]

\* An exception that is no HTTPException has no handler registered: the
\* framework answers 500 with the plain text body "Internal Server Error".
UnhandledExceptionResponse ==
    [NoResponse EXCEPT !.status_code = 500, !.shape = "plain",
                       !.message = <<"Internal Server Error">>]

UnknownBotDetail(bot_id) == <<"Bot with id '", bot_id, "' is not a valid bot.">>
MissingImageDetail(bot_id) ==
    <<"Base image for bot '", bot_id, "' not found in the '", photos_dir,
      "' folder. Please ensure the image file exists and has a matching name (e.g., delhi_mentor_male.jpeg).">>
UnavailableDetail == <<"Image generation service is not available.">>
InternalDetail == <<"Failed to generate the image internally.">>

\* ------------------------------------------------------- validation steps
\* Mutant of IsValidBot: the registry check lets every bot id through.
IsValidBotSkipped(bot_id) == bot_id \in BotIds

\* generate_image: `bot_id not in VALID_BOT_IDS`.
IsValidBot(bot_id) == bot_id \in VALID_BOT_IDS

\* os.path.join(photos_dir, f"{bot_id}{ext}")
PhotoPath(bot_id, ext) == photos_dir \o "/" \o bot_id \o ext

\* Mutant of FindBaseImage: the scan keeps the last existing path (the loop
\* without its break).
FindBaseImageNoBreak(bot_id, photos) ==
    LET found == { i \in 1..Len(supported_extensions) :
                     PhotoPath(bot_id, supported_extensions[i]) \in photos }
    IN  IF found = {} THEN None
        ELSE PhotoPath(bot_id,
                 supported_extensions[CHOOSE i \in found : \A j \in found : j <= i])

\* generate_image: the first path of the ordered extension scan that exists,
\* None when the loop ends without a break.
RECURSIVE ScanExtensions(_, _, _)
ScanExtensions(bot_id, photos, i) ==
    IF i > Len(supported_extensions) THEN None
    ELSE IF PhotoPath(bot_id, supported_extensions[i]) \in photos
         THEN PhotoPath(bot_id, supported_extensions[i])
         ELSE ScanExtensions(bot_id, photos, i + 1)
FindBaseImage(bot_id, photos) == ScanExtensions(bot_id, photos, 1)

\* bot_id.replace("_", " ").title() on the bot ids of the model.
BotName(bot_id) ==
    CASE bot_id = "delhi_mentor_male" -> "Delhi Mentor Male"
      [] bot_id = "pune_friend" -> "Pune Friend"
      [] bot_id = "unknown_bot" -> "Unknown Bot"

\* -------------------------------------------------------- text completion
\* get_bot_response_for_context: the completion's content (which may be
\* None), or the synthesized reaction when the call raises.
get_bot_response_for_context(message, bot_name, outcome) ==
    CASE outcome = "raises" ->
             <<bot_name, " is thinking about the message: '", message, "'">>
      [] outcome = "none" -> <<None>>
      [] outcome = "text" -> <<"(reaction text)">>

\* extract_context: json.loads of the completion's content; the default only
\* when the call or json.loads raises.
extract_context(text, outcome) ==
    IF outcome.raises THEN DefaultContext
    ELSE IF JsonLoads(outcome.content).raises THEN DefaultContext
    ELSE JsonLoads(outcome.content).value

\* ------------------------------------------------------- prompt building
\* dict.get(key, default) followed by f-string formatting of the value.
ContextGet(context, key, default) ==
    IF key \in DOMAIN context.d THEN context.d[key].v ELSE default

\* context.get exists only on a dict: any other JSON value raises
\* AttributeError.
HasGet(context) == context.t = "object"

\* generate_and_save_selfie: prompt_text.
PromptText(bot_name, context) ==
    <<"Close-up portrait of a person who looks like the reference image, with a ",
      ContextGet(context, "emotion", "neutral expression"), " expression, ",
      ContextGet(context, "action", "looking at the camera"), ", at ",
      ContextGet(context, "location", "a neutral background"),
      ". The person's name is ", bot_name,
      ". Ultra-detailed, dslr quality, cinematic photo.">>

\* Mutant of ClientAvailable: the check for an unset client is missing.
ClientCheckMissing(client) == TRUE

\* generate_and_save_selfie: `if not self.gradio_client`.
ClientAvailable(client) == client # None

\* ----------------------------------------------------------------- base64
\* The standard alphabet: sextet n is written as B64Alphabet[n + 1].
B64Alphabet ==
    << "A", "B", "C", "D", "E", "F", "G", "H", "I", "J", "K", "L", "M", "N", "O", "P",
      "Q", "R", "S", "T", "U", "V", "W", "X", "Y", "Z", "a", "b", "c", "d", "e", "f",
      "g", "h", "i", "j", "k", "l", "m", "n", "o", "p", "q", "r", "s", "t", "u", "v",
      "w", "x", "y", "z", "0", "1", "2", "3", "4", "5", "6", "7", "8", "9", "+", "/" >>
B64Pad == "="

B64Char(n) == B64Alphabet[n + 1]
B64Index(c) == (CHOOSE i \in 1..Len(B64Alphabet) : B64Alphabet[i] = c) - 1

\* Mutant of B64Encode: the last, incomplete group is written without padding.
RECURSIVE B64EncodeUnpadded(_)
B64EncodeUnpadded(bytes) ==
    CASE Len(bytes) = 0 -> <<>>
      [] Len(bytes) = 1 ->
            << B64Char(bytes[1] \div 4), B64Char((bytes[1] % 4) * 16) >>
      [] Len(bytes) = 2 ->
            << B64Char(bytes[1] \div 4),
               B64Char((bytes[1] % 4) * 16 + bytes[2] \div 16),
               B64Char((bytes[2] % 16) * 4) >>
      [] OTHER ->
            << B64Char(bytes[1] \div 4),
               B64Char((bytes[1] % 4) * 16 + bytes[2] \div 16),
               B64Char((bytes[2] % 16) * 4 + bytes[3] \div 64),
               B64Char(bytes[3] % 64) >>
            \o B64EncodeUnpadded(SubSeq(bytes, 4, Len(bytes)))

\* base64.b64encode(image_bytes).decode('utf-8'): every three bytes give four
\* characters; a last group of one or two bytes is zero-filled and padded.
RECURSIVE B64Encode(_)
B64Encode(bytes) ==
    CASE Len(bytes) = 0 -> <<>>
      [] Len(bytes) = 1 ->
            << B64Char(bytes[1] \div 4), B64Char((bytes[1] % 4) * 16),
               B64Pad, B64Pad >>
      [] Len(bytes) = 2 ->
            << B64Char(bytes[1] \div 4),
               B64Char((bytes[1] % 4) * 16 + bytes[2] \div 16),
               B64Char((bytes[2] % 16) * 4), B64Pad >>
      [] OTHER ->
            << B64Char(bytes[1] \div 4),
               B64Char((bytes[1] % 4) * 16 + bytes[2] \div 16),
               B64Char((bytes[2] % 16) * 4 + bytes[3] \div 64),
               B64Char(bytes[3] % 64) >>
            \o B64Encode(SubSeq(bytes, 4, Len(bytes)))

\* base64.b64decode: the inverse a client applies to image_base64.
RECURSIVE B64Decode(_)
B64Decode(chars) ==
    IF Len(chars) < 4 THEN <<>>
    ELSE LET a == B64Index(chars[1])
             b == B64Index(chars[2])
             rest == SubSeq(chars, 5, Len(chars))
         IN  CASE chars[3] = B64Pad -> << a * 4 + b \div 16 >>
               [] chars[3] # B64Pad /\ chars[4] = B64Pad ->
                     << a * 4 + b \div 16,
                        (b % 16) * 16 + B64Index(chars[3]) \div 4 >>
               [] OTHER ->
                     << a * 4 + b \div 16,
                        (b % 16) * 16 + B64Index(chars[3]) \div 4,
                        (B64Index(chars[3]) % 4) * 64 + B64Index(chars[4]) >>
                     \o B64Decode(rest)

\* ------------------------------------------------------ generated artifact
\* uuid.uuid4(): a random 122-bit name, taken never to repeat.  Names are
\* opaque and a request draws at most one, so the name drawn for request r
\* is written "uuid-r".
uuid4(r) == "uuid-" \o ToString(r)

\* Mutant of UniqueFilename: the file is named after the bot.
BotFilename(bot_id, uuid) == bot_id \o ".png"

\* generate_and_save_selfie: unique_filename, output_path and the URL path.
UniqueFilename(bot_id, uuid) == uuid \o ".png"
OutputPath(filename) == "static/images/" \o filename
UrlPath(filename) == "/static/images/" \o filename

\* str.rstrip('/') on a URL held as its origin followed by trailing slashes.
RECURSIVE RStripSlash(_)
RStripSlash(url) ==
    IF Len(url) > 0 /\ url[Len(url)] = "/"
    THEN RStripSlash(SubSeq(url, 1, Len(url) - 1))
    ELSE url

\* generate_image: f"{base_url.rstrip('/')}{image_path}"
FullImageUrl(base_url, image_path) == RStripSlash(base_url) \o <<image_path>>

\* Image files of at most MaxLen bytes.
ByteSeqs == UNION { [1..n -> ByteVals] : n \in 0..MaxLen }

\* -------------------------------------------------- generation backend
\* What gradio_client.predict can hand back: a raised exception, or a value
\* that is None, an empty list, a tuple, a list of a string, a list of a dict
\* without "image", or a list of a dict whose "image" names a file.
TempImagePath == "/tmp/gradio/image.png"
PyValue(t, items) == [t |-> t, items |-> items]
PredictResults ==
    { PyValue("none", <<>>),
      PyValue("list", <<>>),
      PyValue("tuple", << [t |-> "str", image |-> ""] >>),
      PyValue("list", << [t |-> "str", image |-> ""] >>),
      PyValue("list", << [t |-> "dict", image |-> ""] >>),
      PyValue("list", << [t |-> "dict", image |-> TempImagePath] >>) }
PredictOutcomes ==
    { [raises |-> TRUE, result |-> PyValue("none", <<>>)] }
    \cup { [raises |-> FALSE, result |-> v] : v \in PredictResults }

\* open(temp_image_path, "rb") / f.read(): raises, or yields the file's bytes.
ReadOutcomes ==
    { [raises |-> TRUE, bytes |-> <<>>] }
    \cup { [raises |-> FALSE, bytes |-> b] : b \in ByteSeqs }

\* open(output_path, "wb") / f.write(image_bytes): open raises and no file
\* appears; or the write raises and the file open() created stays behind
\* empty; or the bytes are written.
WriteOutcomes == {"ok", "open_raises", "write_raises"}

\* generate_and_save_selfie: `result and isinstance(result, list) and
\* result[0].get("image")`.  A first element without .get raises
\* AttributeError, which the same except clause catches: either way the
\* sequence fails.
ResultUsable(result) ==
    /\ result.t # "none"
    /\ Len(result.items) > 0
    /\ result.t = "list"
    /\ result.items[1].t = "dict"
    /\ result.items[1].image # ""

\* ImageGenerationResponse.emotion_context is Dict[str, str]: building the
\* response raises ValidationError when some value is no string.
ContextValidates(context) ==
    /\ context.t = "object"
    /\ \A k \in DOMAIN context.d : context.d[k].t = "str"

\* ---------------------------------------------------------- request state
Steps ==
    << "registry_check", "image_lookup", "reaction_call", "scene_call",
       "client_check", "generation_call", "file_write", "response" >>

\* A request slot: pc is where its coroutine stands ("idle": not yet arrived,
\* "predicting": suspended at the await, "done": answered); scene is the
\* branch extract_context took; trace lists the steps it has run; saved is
\* the output_path once the bytes are written ("Image successfully saved").
NewRequest ==
    [pc |-> "idle", bot_id |-> "", message |-> "", scene |-> "",
     base_image_path |-> None, context |-> NoContext, prompt_text |-> <<>>,
     trace |-> <<>>, saved |-> "", response |-> NoResponse]

\* The handler returns or raises: the request is answered.
Finished(st, trace, response) ==
    [st EXCEPT !.pc = "done", !.trace = trace \o <<"response">>,
               !.response = response]

\* Which branch of extract_context produced the context: "except" (the call
\* or json.loads raised) or "parsed".
SceneKind(outcome) ==
    IF outcome.raises \/ JsonLoads(outcome.content).raises
    THEN "except" ELSE "parsed"

\* ------------------------------------------------------------ the handler
\* Mutant of generate_and_save_selfie_head: the client check sits inside the
\* try block, so its HTTPException(503) is caught and turned into the 500.
selfie_head_check_in_try(st, client, trace) ==
    IF ~HasGet(st.context)
    THEN Finished(st, trace \o <<"client_check">>, UnhandledExceptionResponse)
    ELSE IF client = None
    THEN Finished(st, trace \o <<"client_check">>,
                  http_exception_handler(500, InternalDetail))
    ELSE [st EXCEPT !.pc = "predicting",
                    !.prompt_text = PromptText(BotName(st.bot_id), st.context),
                    !.trace = trace \o <<"client_check", "generation_call">>]

\* generate_and_save_selfie up to its await: the client check (503, raised
\* outside the try), prompt building (outside the try too: a context
\* without .get escapes as AttributeError), then the predict call is handed
\* to a thread.  Evaluating self.gradio_client.predict on an unset client
\* would raise inside the try.
generate_and_save_selfie_head(st, client, trace) ==
    IF ~ClientAvailable(client)
    THEN Finished(st, trace \o <<"client_check">>,
                  http_exception_handler(503, UnavailableDetail))
    ELSE IF ~HasGet(st.context)
    THEN Finished(st, trace \o <<"client_check">>, UnhandledExceptionResponse)
    ELSE IF client = None
    THEN Finished([st EXCEPT !.prompt_text =
                                 PromptText(BotName(st.bot_id), st.context)],
                  trace \o <<"client_check">>,
                  http_exception_handler(500, InternalDetail))
    ELSE [st EXCEPT !.pc = "predicting",
                    !.prompt_text = PromptText(BotName(st.bot_id), st.context),
                    !.trace = trace \o <<"client_check", "generation_call">>]

\* Mutant of generate_image_head: the handler fails fast, checking the
\* client before the two text-completion calls.
generate_image_head_fail_fast(bot_id, message, photos, client, reaction, scene) ==
    LET st0 == [NewRequest EXCEPT !.bot_id = bot_id, !.message = message]
    IN  IF ~IsValidBot(bot_id)
        THEN Finished(st0, <<"registry_check">>,
                      http_exception_handler(404, UnknownBotDetail(bot_id)))
        ELSE IF FindBaseImage(bot_id, photos) = None
        THEN Finished(st0, <<"registry_check", "image_lookup">>,
                      http_exception_handler(404, MissingImageDetail(bot_id)))
        ELSE IF ~ClientAvailable(client)
        THEN Finished([st0 EXCEPT
                          !.base_image_path = FindBaseImage(bot_id, photos)],
                      <<"registry_check", "image_lookup", "client_check">>,
                      http_exception_handler(503, UnavailableDetail))
        ELSE generate_and_save_selfie_head(
                 [st0 EXCEPT
                     !.base_image_path = FindBaseImage(bot_id, photos),
                     !.scene = SceneKind(scene),
                     !.context = extract_context(
                         get_bot_response_for_context(
                             message, BotName(bot_id), reaction),
                         scene)],
                 client,
                 <<"registry_check", "image_lookup", "reaction_call",
                   "scene_call">>)

\* generate_image up to the await inside generate_and_save_selfie.
generate_image_head(bot_id, message, photos, client, reaction, scene) ==
    LET st0 == [NewRequest EXCEPT !.bot_id = bot_id, !.message = message]
    IN  IF ~IsValidBot(bot_id)
        THEN Finished(st0, <<"registry_check">>,
                      http_exception_handler(404, UnknownBotDetail(bot_id)))
        ELSE IF FindBaseImage(bot_id, photos) = None
        THEN Finished(st0, <<"registry_check", "image_lookup">>,
                      http_exception_handler(404, MissingImageDetail(bot_id)))
        ELSE generate_and_save_selfie_head(
                 [st0 EXCEPT
                     !.base_image_path = FindBaseImage(bot_id, photos),
                     !.scene = SceneKind(scene),
                     !.context = extract_context(
                         get_bot_response_for_context(
                             message, BotName(bot_id), reaction),
                         scene)],
                 client,
                 <<"registry_check", "image_lookup", "reaction_call",
                   "scene_call">>)

\* generate_image: the response built once generate_and_save_selfie returned.
\* Building ImageGenerationResponse validates emotion_context.
SuccessResponse(st, base_url, filename, image_base64) ==
    IF ContextValidates(st.context)
    THEN [NoResponse EXCEPT
             !.status_code = 200, !.shape = "json", !.status = "success",
             !.bot_id = st.bot_id,
             !.image_url = FullImageUrl(base_url, UrlPath(filename)),
             !.image_base64 = image_base64,
             !.emotion_context = st.context]
    ELSE UnhandledExceptionResponse

NoFile == [written |-> FALSE, path |-> "", bytes |-> <<>>]

\* generate_and_save_selfie from the return of predict on, and the rest of
\* generate_image: shape check, read, base64, write, response.  Every
\* exception of the try block becomes the generic 500.
generate_image_tail(st, predict, read, write, uuid, base_url) ==
    LET filename == UniqueFilename(st.bot_id, uuid)
        internal == http_exception_handler(500, InternalDetail)
    IN  IF predict.raises \/ ~ResultUsable(predict.result) \/ read.raises
        THEN [req |-> Finished(st, st.trace, internal), file |-> NoFile]
        ELSE IF write = "open_raises"
        THEN [req |-> Finished(st, st.trace \o <<"file_write">>, internal),
              file |-> NoFile]
        ELSE IF write = "write_raises"
        THEN [req |-> Finished(st, st.trace \o <<"file_write">>, internal),
              file |-> [written |-> TRUE, path |-> OutputPath(filename),
                        bytes |-> <<>>]]
        ELSE [req |-> Finished([st EXCEPT !.saved = OutputPath(filename)],
                               st.trace \o <<"file_write">>,
                               SuccessResponse(st, base_url, filename,
                                               B64Encode(read.bytes))),
              file |-> [written |-> TRUE, path |-> OutputPath(filename),
                        bytes |-> read.bytes]]

\* -------------------------------------------------------------- the state
VARIABLES
    started,        \* the lifespan startup hook has run
    gradio_client,  \* chatbot_service.gradio_client: None or the client
    photos,         \* the files under photos/
    static_images,  \* static/images: path -> bytes
    requests        \* per request slot: where its coroutine stands
vars == <<started, gradio_client, photos, static_images, requests>>

Reqs == 1..NumReqs
TheClient == "Client(multimodalart/Ip-Adapter-FaceID)"

\* The base images on disk: any of the four files of delhi_mentor_male, none
\* for pune_friend, and one for the unregistered unknown_bot.
PhotoConfigs ==
    { delhi \cup {PhotoPath("unknown_bot", ".png")} :
        delhi \in SUBSET { PhotoPath("delhi_mentor_male", supported_extensions[i]) :
                             i \in 1..Len(supported_extensions) } }

\* ChatbotService.__init__ and the module-level setup.
Init ==
    /\ started = FALSE
    /\ gradio_client = None
    /\ photos \in PhotoConfigs
    /\ static_images = <<>>
    /\ requests = [r \in Reqs |-> NewRequest]

\* lifespan -> initialize_gradio_client: Client(...) returned.
InitializeGradioClient ==
    /\ ~started
    /\ started' = TRUE
    /\ gradio_client' = TheClient
    /\ UNCHANGED <<photos, static_images, requests>>

\* lifespan -> initialize_gradio_client: Client(...) raised; the except
\* branch leaves the client None.
InitializeGradioClientFails ==
    /\ ~started
    /\ started' = TRUE
    /\ gradio_client' = None
    /\ UNCHANGED <<photos, static_images, requests>>

\* Where a request can stand after its first step, over every request body
\* and every outcome of the two completion calls.
HeadResults(files, client) ==
    { generate_image_head(bot_id, message, files, client, reaction, scene) :
        bot_id \in BotIds, message \in Messages,
        reaction \in ReactionOutcomes, scene \in SceneOutcomes }

\* POST /v1/generate_image arrives in slot r and runs up to its await (or
\* to its response).
HandleRequest(r) ==
    /\ started
    /\ requests[r].pc = "idle"
    /\ \E st \in HeadResults(photos, gradio_client) :
           requests' = [requests EXCEPT ![r] = st]
    /\ UNCHANGED <<started, gradio_client, photos, static_images>>

\* What one run of the code after the await draws from its environment: the
\* outcome of predict, of the read, of the write, and the name from uuid4.
TailInputs(r) ==
    [predict : PredictOutcomes, read : ReadOutcomes, write : WriteOutcomes,
     uuid : {uuid4(r)}]

\* How the code after the await can end, over every such draw.
TailResults(r, st) ==
    { generate_image_tail(st, in.predict, in.read, in.write, in.uuid, base_url) :
        in \in TailInputs(r), base_url \in BaseUrls }

\* The predict thread of slot r finishes and its coroutine runs to the
\* response.
PredictReturns(r) ==
    /\ requests[r].pc = "predicting"
    /\ \E out \in TailResults(r, requests[r]) :
           /\ requests' = [requests EXCEPT ![r] = out.req]
           /\ static_images' =
                  IF out.file.written
                  THEN (out.file.path :> out.file.bytes) @@ static_images
                  ELSE static_images
    /\ UNCHANGED <<started, gradio_client, photos>>

Next ==
    \/ InitializeGradioClient
    \/ InitializeGradioClientFails
    \/ \E r \in Reqs : HandleRequest(r)
    \/ \E r \in Reqs : PredictReturns(r)

Spec == Init /\ [][Next]_vars

\* ============================================================== claims
Done(r) == requests[r].pc = "done"
Response(r) == requests[r].response
InTrace(r, step) == \E i \in 1..Len(requests[r].trace) : requests[r].trace[i] = step

\* The request's bot id is registered and one of its four base images exists.
PassesValidation(r) ==
    /\ requests[r].bot_id \in VALID_BOT_IDS
    /\ \E i \in 1..Len(supported_extensions) :
           PhotoPath(requests[r].bot_id, supported_extensions[i]) \in photos

ClientStaysUnset == (started /\ gradio_client = None) => gradio_client' = None

\* C1, as stated: once initialization has failed the client stays unset and
\* every request, whatever its input, is answered 503.
C1_EveryRequest503 ==
    [][ /\ ClientStaysUnset
        /\ \A r \in Reqs :
               (gradio_client' = None /\ Done(r)') =>
                   Response(r)'.status_code = 503 ]_vars

\* C1, amended: once initialization has failed the client stays unset; every
\* request whose bot id is registered and has a base image is answered 503
\* "Image generation service is not available.", and every other request is
\* answered 404.
C1_ValidRequests503 ==
    [][ /\ ClientStaysUnset
        /\ \A r \in Reqs :
               (gradio_client' = None /\ Done(r)') =>
                   IF PassesValidation(r)'
                   THEN Response(r)' =
                            http_exception_handler(503, UnavailableDetail)
                   ELSE Response(r)'.status_code = 404 ]_vars

C1_Witness ==
    /\ started /\ gradio_client = None
    /\ \E r1, r2 \in Reqs :
           /\ Done(r1) /\ PassesValidation(r1)
           /\ Response(r1).status_code = 503
           /\ requests[r1].context = FullScene
           /\ Done(r2) /\ ~PassesValidation(r2)
           /\ Response(r2).status_code = 404

\* C2: every finished request carries the success payload or a 404 / 503 /
\* 500 error in the shape {status: "error", message}, and no request that
\* saved its artifact reports an error.
C2_FourOutcomes ==
    \A r \in Reqs :
        Done(r) =>
            /\ \/ /\ Response(r).status_code = 200
                  /\ Response(r).shape = "json"
                  /\ Response(r).status = "success"
               \/ /\ Response(r).status_code \in {404, 503, 500}
                  /\ Response(r).shape = "json"
                  /\ Response(r).status = "error"
            /\ requests[r].saved # "" => Response(r).status_code = 200

\* The three-key object of strings the scene prompt asks for.
WellFormedScene(context) ==
    /\ context.t = "object"
    /\ DOMAIN context.d = Keys
    /\ \A k \in Keys : context.d[k].t = "str"

\* C3: when the scene call raises or its output is not the structured
\* object asked for, the context of the request is exactly the default, and
\* the request goes on to the image-generation step.
C3_MalformedGivesDefault ==
    \A r \in Reqs :
        requests[r].scene # "" =>
            /\ \/ requests[r].context = DefaultContext
               \/ requests[r].scene = "parsed" /\ WellFormedScene(requests[r].context)
            /\ (requests[r].context = DefaultContext /\ gradio_client # None)
                   => InTrace(r, "generation_call")

\* C4: a request that passed validation is never answered with an error
\* caused by a text-completion outcome: it reaches the generation step, and
\* ends in success, in 503 (client unset) or in the generic 500 of the
\* generation sequence.
C4_CompletionsNeverFail ==
    \A r \in Reqs :
        (Done(r) /\ requests[r].scene # "") =>
            /\ InTrace(r, "client_check")
            /\ gradio_client # None => InTrace(r, "generation_call")
            /\ \/ Response(r).status_code = 200
               \/ Response(r) = http_exception_handler(503, UnavailableDetail)
               \/ /\ Response(r) = http_exception_handler(500, InternalDetail)
                  /\ requests[r].saved = ""

C2_Witness ==
    \E r \in Reqs :
        /\ Done(r) /\ requests[r].saved # ""
        /\ Response(r) = UnhandledExceptionResponse

C3_Witness ==
    \E r \in Reqs :
        /\ requests[r].scene = "parsed"
        /\ requests[r].context = JNonObject("array")
        /\ Done(r) /\ ~InTrace(r, "generation_call")

C4_Witness ==
    \E r \in Reqs :
        /\ Done(r) /\ requests[r].context = NonStringScene
        /\ InTrace(r, "file_write")
        /\ Response(r).shape = "plain"

\* C5: requests that saved an artifact saved it under pairwise distinct
\* paths, and a file of static/images, once there, keeps its bytes and is
\* never removed, in every step of every request.
C5_DistinctAndStable ==
    [][ /\ \A f \in DOMAIN static_images :
               /\ f \in DOMAIN static_images'
               /\ static_images'[f] = static_images[f]
        /\ \A r1, r2 \in Reqs :
               (r1 # r2 /\ requests'[r1].saved # "" /\ requests'[r2].saved # "")
                   => requests'[r1].saved # requests'[r2].saved ]_vars

C5_Witness ==
    \E r1, r2 \in Reqs :
        /\ r1 # r2
        /\ requests[r1].bot_id = requests[r2].bot_id
        /\ requests[r1].saved # "" /\ requests[r2].saved # ""
        /\ requests[r1].saved \in DOMAIN static_images
        /\ requests[r2].saved \in DOMAIN static_images
        /\ static_images[requests[r1].saved] # static_images[requests[r2].saved]

\* C6: in every state, the image_base64 of a success response decodes to the
\* bytes of the file static/images holds for that request, the file its
\* image_url names.
C6_PayloadEqualsFile ==
    \A r \in Reqs :
        (Done(r) /\ Response(r).status_code = 200) =>
            /\ requests[r].saved \in DOMAIN static_images
            /\ B64Decode(Response(r).image_base64) = static_images[requests[r].saved]
            /\ Response(r).image_url[Len(Response(r).image_url)]
                   = "/" \o requests[r].saved

C6_Witness ==
    \E r1, r2 \in Reqs :
        /\ r1 # r2
        /\ Done(r1) /\ Response(r1).status_code = 200
        /\ Done(r2) /\ Response(r2).status_code = 200
        /\ Len(static_images[requests[r1].saved]) = MaxLen
        /\ Len(static_images[requests[r2].saved]) = 1
        /\ B64Decode(Response(r1).image_base64) # B64Decode(Response(r2).image_base64)

\* C7: a request whose generation call was issued (the client was available
\* and the sequence started) and whose sequence did not end in a saved
\* artifact (predict raised, the result was unusable, the read or the write
\* failed) is answered with the generic 500; 503 is answered exactly when the
\* client is unset at the client check, with its own message.
C7_SequenceFailureIs500 ==
    \A r \in Reqs :
        Done(r) =>
            /\ (InTrace(r, "generation_call") /\ requests[r].saved = "")
                   => Response(r) = http_exception_handler(500, InternalDetail)
            /\ Response(r).status_code = 503
                   => /\ gradio_client = None
                      /\ Response(r) = http_exception_handler(503, UnavailableDetail)
            /\ (gradio_client = None /\ InTrace(r, "client_check"))
                   => Response(r).status_code = 503

C7_Witness ==
    \E r \in Reqs :
        /\ Done(r) /\ InTrace(r, "file_write") /\ requests[r].saved = ""
        /\ Response(r) = http_exception_handler(500, InternalDetail)
        /\ OutputPath(UniqueFilename(requests[r].bot_id, uuid4(r)))
               \in DOMAIN static_images

\* C8: a request with an unregistered bot id is answered 404 in the error
\* shape with a message holding that id, right after the registry check:
\* no completion call, no generation call, no file write.
C8_UnknownBot404 ==
    \A r \in Reqs :
        (requests[r].pc # "idle" /\ requests[r].bot_id \notin VALID_BOT_IDS) =>
            /\ Done(r)
            /\ Response(r).status_code = 404
            /\ Response(r).shape = "json" /\ Response(r).status = "error"
            /\ \E i \in 1..Len(Response(r).message) :
                   Response(r).message[i] = requests[r].bot_id
            /\ requests[r].trace = <<"registry_check", "response">>
            /\ requests[r].saved = ""

C8_Witness ==
    \E r \in Reqs :
        /\ Done(r) /\ requests[r].bot_id = "unknown_bot"
        /\ PhotoPath("unknown_bot", ".png") \in photos
        /\ gradio_client # None
        /\ Response(r) = http_exception_handler(404, UnknownBotDetail("unknown_bot"))

\* The positions of supported_extensions whose file exists for the bot.
Existing(bot_id) ==
    { i \in 1..Len(supported_extensions) :
        PhotoPath(bot_id, supported_extensions[i]) \in photos }

\* C9: a request with a registered bot id is answered 404 when none of its
\* four base images exists; when one exists it is not answered 404 and its
\* base image is the first existing one in the order .jpeg, .jpg, .png, .webp.
C9_FirstExistingImage ==
    \A r \in Reqs :
        (requests[r].pc # "idle" /\ requests[r].bot_id \in VALID_BOT_IDS) =>
            IF Existing(requests[r].bot_id) = {}
            THEN Done(r) /\ Response(r).status_code = 404
            ELSE /\ Response(r).status_code # 404
                 /\ \E i \in Existing(requests[r].bot_id) :
                        /\ \A j \in Existing(requests[r].bot_id) : i <= j
                        /\ requests[r].base_image_path =
                               PhotoPath(requests[r].bot_id, supported_extensions[i])

C9_Witness ==
    \E r1, r2 \in Reqs :
        /\ Existing("delhi_mentor_male") = {2, 4}
        /\ requests[r1].pc # "idle"
        /\ requests[r1].base_image_path = PhotoPath("delhi_mentor_male", ".jpg")
        /\ Done(r2) /\ requests[r2].bot_id = "pune_friend"
        /\ Response(r2).status_code = 404

\* C10: the steps of a request are an initial stretch of the fixed order
\* (followed by the response once it is answered); a 404 is preceded by no
\* completion call, a 503 by both completion calls and by neither the
\* generation call nor a file write.
C10_StepOrder ==
    \A r \in Reqs :
        requests[r].pc # "idle" =>
            /\ IF requests[r].pc = "predicting"
               THEN requests[r].trace = SubSeq(Steps, 1, 6)
               ELSE \E k \in 1..7 :
                        requests[r].trace = SubSeq(Steps, 1, k) \o <<"response">>
            /\ Response(r).status_code = 404
                   => ~InTrace(r, "reaction_call") /\ ~InTrace(r, "scene_call")
            /\ Response(r).status_code = 503
                   => /\ InTrace(r, "reaction_call") /\ InTrace(r, "scene_call")
                      /\ ~InTrace(r, "generation_call")
                      /\ ~InTrace(r, "file_write")

C10_Witness ==
    \E r1, r2 \in Reqs :
        /\ Done(r1) /\ requests[r1].trace = Steps
        /\ Response(r1).status_code = 200
        /\ Done(r2) /\ Response(r2).status_code = 404
        /\ Len(requests[r2].trace) = 3

====
